---- MODULE Spec2Model ----
(***************************************************************************)
(* The rule engine of rbs_streamlit.py: evaluate_condition, rule_matches   *)
(* and run_rules, driven by the Streamlit script that supplies the facts   *)
(* and the rule list and shows the outcome.                                *)
(*                                                                         *)
(* Python values are tagged records [t |-> type, v |-> payload]:           *)
(*   int    v is the integer                                               *)
(*   float  v is the number in hundredths (0.65 is 65), so that an int n   *)
(*          and a float h compare as 100*n against h, as Python compares   *)
(*          int and float by numeric value                                 *)
(*   str    v is the text                                                  *)
(*   list   v is the sequence of the elements                              *)
(*   none   None (JSON null)                                               *)
(* A dict is a function from its keys; a key the dict lacks is outside     *)
(* DOMAIN.  An operation that can raise returns "TypeError" in place of    *)
(* its value.                                                              *)
(***************************************************************************)
EXTENDS Integers, Sequences, FiniteSets, TLC

VARIABLES facts, rules, result, baseline, probe

vars == <<facts, rules, result, baseline, probe>>

----------------------------------------------------------------------------
(* Python values *)

PyInt(n) == [t |-> "int", v |-> n]
PyFloat(h) == [t |-> "float", v |-> h]
PyStr(s) == [t |-> "str", v |-> s]
PyList(q) == [t |-> "list", v |-> q]
PyNone == [t |-> "none", v |-> 0]

EmptyDict == [k \in {} |-> ""]

IsNum(x) == x.t \in {"int", "float"}

\* the numeric value of an int or a float, in hundredths
Num(x) == IF x.t = "int" THEN 100 * x.v ELSE x.v

\* the characters of the texts that the model orders or searches
Chars(s) ==
    CASE s = "" -> << >>
      [] s = "a" -> <<"a">>
      [] s = "b" -> <<"b">>
      [] s = "ab" -> <<"a", "b">>

\* the code point of a character
Ord(c) ==
    CASE c = "a" -> 97
      [] c = "b" -> 98

\* dict.get(key, default)
Get(d, key, default) == IF key \in DOMAIN d THEN d[key] ELSE default

\* hash(x): a list is unhashable
Hashable(x) == x.t # "list"

RECURSIVE PyEq(_, _)
\* a == b
PyEq(a, b) ==
    IF IsNum(a) /\ IsNum(b) THEN Num(a) = Num(b)
    ELSE IF a.t = "str" /\ b.t = "str" THEN a.v = b.v
    ELSE IF a.t = "none" /\ b.t = "none" THEN TRUE
    ELSE IF a.t = "list" /\ b.t = "list"
         THEN /\ Len(a.v) = Len(b.v)
              /\ \A i \in 1..Len(a.v) : PyEq(a.v[i], b.v[i])
    ELSE FALSE

\* the order of two integers: "lt", "eq" or "gt"
IntCmp(m, n) == IF m < n THEN "lt" ELSE IF m > n THEN "gt" ELSE "eq"

RECURSIVE TextCmp(_, _)
\* the order of two texts given by their characters, by code point
TextCmp(p, q) ==
    IF p = << >> \/ q = << >> THEN IntCmp(Len(p), Len(q))
    ELSE IF Ord(Head(p)) # Ord(Head(q)) THEN IntCmp(Ord(Head(p)), Ord(Head(q)))
    ELSE TextCmp(Tail(p), Tail(q))

RECURSIVE PyCmp(_, _)
\* the order of a and b under <, <=, >, >=: "lt", "eq", "gt", or "TypeError"
\* when the two types have no order
PyCmp(a, b) ==
    IF IsNum(a) /\ IsNum(b) THEN IntCmp(Num(a), Num(b))
    ELSE IF a.t = "str" /\ b.t = "str" THEN TextCmp(Chars(a.v), Chars(b.v))
    ELSE IF a.t = "list" /\ b.t = "list"
         THEN LET diff == {i \in 1..Len(a.v) : i <= Len(b.v) /\ ~PyEq(a.v[i], b.v[i])}
              IN  IF diff = {} THEN IntCmp(Len(a.v), Len(b.v))
                  ELSE LET i == CHOOSE j \in diff : \A k \in diff : j <= k
                       IN  PyCmp(a.v[i], b.v[i])
    ELSE "TypeError"

\* is the text p a substring of the text q
Substring(p, q) ==
    \E i \in 0..(Len(q) - Len(p)) : SubSeq(q, i + 1, i + Len(p)) = p

\* a in b: "True", "False" or "TypeError"
PyIn(a, b) ==
    IF b.t = "list"
    THEN IF \E i \in 1..Len(b.v) : PyEq(b.v[i], a) THEN "True" ELSE "False"
    ELSE IF b.t = "str"
         THEN IF a.t # "str" THEN "TypeError"
              ELSE IF Substring(Chars(a.v), Chars(b.v)) THEN "True" ELSE "False"
    ELSE "TypeError"

Bool(b) == IF b THEN "True" ELSE "False"

Not(x) == IF x = "True" THEN "False" ELSE IF x = "False" THEN "True" ELSE x

----------------------------------------------------------------------------
(* The engine *)

\* the keys of OPS
OPS == {"==", "!=", ">", ">=", "<", "<=", "in", "not_in"}

\* OPS[op](a, b): "True", "False" or "TypeError"
CallOp(op, a, b) ==
    LET c == PyCmp(a, b)
        ordered(S) == IF c = "TypeError" THEN "TypeError" ELSE Bool(c \in S)
    IN  CASE op = "==" -> Bool(PyEq(a, b))
          [] op = "!=" -> Bool(~PyEq(a, b))
          [] op = ">" -> ordered({"gt"})
          [] op = ">=" -> ordered({"gt", "eq"})
          [] op = "<" -> ordered({"lt"})
          [] op = "<=" -> ordered({"lt", "eq"})
          [] op = "in" -> PyIn(a, b)
          [] op = "not_in" -> Not(PyIn(a, b))

\* len(cond): -1 stands for the TypeError of a value that has no length
PyLen(x) ==
    IF x.t = "list" THEN Len(x.v)
    ELSE IF x.t = "str" THEN Len(Chars(x.v))
    ELSE -1

\* the i-th element that unpacking cond yields
Item(x, i) == IF x.t = "list" THEN x.v[i] ELSE PyStr(Chars(x.v)[i])

\* the call with no try around it: the exception leaves evaluate_condition
Unguarded(r) == r

\* except Exception: return True
FailOpenGuard(r) == IF r = "TypeError" THEN "True" ELSE r

\* try: return r / except Exception: return False
Guarded(r) == IF r = "TypeError" THEN "False" ELSE r

\* evaluate_condition(facts, cond): "True", "False", or "TypeError" when the
\* exception leaves the function
evaluate_condition(F, cond) ==
    IF PyLen(cond) = -1 THEN "TypeError"
    ELSE IF PyLen(cond) # 3 THEN "False"
    ELSE LET field == Item(cond, 1)
             op == Item(cond, 2)
             value == Item(cond, 3)
         IN  IF ~Hashable(field) THEN "TypeError"
             ELSE IF ~(field.t = "str" /\ field.v \in DOMAIN F) THEN "False"
             ELSE IF ~Hashable(op) THEN "TypeError"
             ELSE IF ~(op.t = "str" /\ op.v \in OPS) THEN "False"
             ELSE Guarded(CallOp(op.v, F[field.v], value))

RECURSIVE AllTrue(_, _)
\* all() with an empty sequence of conditions counted as false
NotAllOfNone(F, conds) ==
    IF conds = << >> THEN "False"
    ELSE LET r == evaluate_condition(F, Head(conds))
         IN  IF r # "True" THEN r
             ELSE IF Tail(conds) = << >> THEN "True"
             ELSE AllTrue(F, Tail(conds))

\* all(evaluate_condition(facts, c) for c in conds): conditions are evaluated
\* in order and evaluation stops at the first that is not true
AllTrue(F, conds) ==
    IF conds = << >> THEN "True"
    ELSE LET r == evaluate_condition(F, Head(conds))
         IN  IF r = "True" THEN AllTrue(F, Tail(conds)) ELSE r

\* rule_matches(facts, rule): "True", "False" or "TypeError"
rule_matches(F, rule) == AllTrue(F, Get(rule, "conditions", << >>))

\* the two default actions taken for one another
NoRuleMatchedSwapped == [decision |-> "REVIEW", reason |-> "No action"]

\* the action run_rules returns when no rule fired
NO_RULE_MATCHED == [decision |-> "REVIEW", reason |-> "No rule matched"]

\* the action run_rules returns when the best rule has no "action" key
NO_ACTION == [decision |-> "REVIEW", reason |-> "No action"]

\* a rule without a priority sorted behind every other rule
SortKeyMissingLast(rule) == Get(rule, "priority", PyInt(-100))

\* key=lambda r: r.get("priority", 0)
SortKey(rule) == Get(rule, "priority", PyInt(0))

\* sorted() without reverse=True: behind every rule whose key is not greater
InsertAtAscending(R, s, i) ==
    Cardinality({k \in 1..Len(s) : PyCmp(SortKey(R[s[k]]), SortKey(R[i])) \in {"lt", "eq"}})

\* a descending sort that is not stable: before the rules with an equal key
InsertAtBeforeTies(R, s, i) ==
    Cardinality({k \in 1..Len(s) : PyCmp(SortKey(R[s[k]]), SortKey(R[i])) = "gt"})

\* where sorted(..., reverse=True) puts the rule R[i] among the rules R[s[k]]
\* already in descending order: behind every rule whose key is not smaller,
\* so rules with equal keys keep the order they came in
InsertAt(R, s, i) ==
    Cardinality({k \in 1..Len(s) : PyCmp(SortKey(R[s[k]]), SortKey(R[i])) \in {"gt", "eq"}})

RECURSIVE SortedDesc(_, _, _)
\* sorted(fired, key=..., reverse=True), on the indices of the rules in R:
\* s is the part sorted so far, todo the indices still to place
SortedDesc(R, s, todo) ==
    IF todo = << >> THEN s
    ELSE LET i == Head(todo)
             n == InsertAt(R, s, i)
         IN  SortedDesc(R, SubSeq(s, 1, n) \o <<i>> \o SubSeq(s, n + 1, Len(s)), Tail(todo))

\* sorted() raises TypeError when it compares two keys that have no order; with
\* two or more rules every key is compared with another one, and a key of
\* another type than the first is compared with a key before it
SortRaises(R, idx) ==
    \E j, k \in 1..Len(idx) :
        j # k /\ PyCmp(SortKey(R[idx[j]]), SortKey(R[idx[k]])) = "TypeError"

\* fired_sorted[0].get("action") or the default: an empty action replaced too
BestActionOrDefault(rule) ==
    IF Get(rule, "action", EmptyDict) = EmptyDict
    THEN [decision |-> "REVIEW", reason |-> "No action"]
    ELSE rule["action"]

\* what run_rules returns as the action of the best rule
BestAction(rule) == Get(rule, "action", NO_ACTION)

Raised == [status |-> "raised", action |-> EmptyDict, fired |-> << >>, order |-> << >>]

NoResult == [status |-> "none", action |-> EmptyDict, fired |-> << >>, order |-> << >>]

\* run_rules(facts, rules) -> (best_action, fired_rules).  order[k] is the
\* position in the rules of the rule object fired[k]; status is "raised" when
\* an exception leaves the function
run_rules(F, R) ==
    LET m == [i \in 1..Len(R) |-> rule_matches(F, R[i])]
        idx == SelectSeq([i \in 1..Len(R) |-> i], LAMBDA i : m[i] = "True")
    IN  IF \E i \in 1..Len(R) : m[i] = "TypeError" THEN Raised
        ELSE IF idx = << >>
             THEN [status |-> "ok", action |-> NO_RULE_MATCHED,
                   fired |-> << >>, order |-> << >>]
        ELSE IF SortRaises(R, idx) THEN Raised
        ELSE LET s == SortedDesc(R, << >>, idx)
             IN  [status |-> "ok", action |-> BestAction(R[s[1]]),
                  fired |-> [k \in 1..Len(s) |-> R[s[k]]], order |-> s]

\* rules.sort(key=..., reverse=True) in place of sorted(): the caller's list
\* comes back reordered
rules_sorted_in_place(R) ==
    LET all == [i \in 1..Len(R) |-> i]
    IN  IF SortRaises(R, all) THEN R
        ELSE LET s == SortedDesc(R, << >>, all) IN [k \in 1..Len(R) |-> R[s[k]]]

\* the list passed as rules, after the call: the comprehension and sorted()
\* build new lists and leave it as it was
rules_after_run(R) == R

----------------------------------------------------------------------------
(* The data of the script *)

Cond(field, op, value) == PyList(<<PyStr(field), PyStr(op), value>>)

Action(decision, reason) == [decision |-> decision, reason |-> reason]

\* the name of the third rule is written with "--" for its dash
DEFAULT_RULES ==
    << [name |-> "Excellent profile", priority |-> PyInt(100),
        conditions |-> << Cond("income", ">=", PyInt(8000)),
                          Cond("credit_score", ">=", PyInt(750)),
                          Cond("debt_to_income", "<", PyFloat(35)),
                          Cond("employment_years", ">=", PyInt(2)) >>,
        action |-> Action("APPROVE", "Excellent income/credit/DTI/employment")],
       [name |-> "Good profile", priority |-> PyInt(80),
        conditions |-> << Cond("income", ">=", PyInt(6000)),
                          Cond("credit_score", ">=", PyInt(700)),
                          Cond("debt_to_income", "<", PyFloat(45)) >>,
        action |-> Action("APPROVE", "Good income & credit; DTI acceptable")],
       [name |-> "Borderline -- manual review", priority |-> PyInt(60),
        conditions |-> << Cond("income", ">=", PyInt(4000)),
                          Cond("credit_score", ">=", PyInt(650)),
                          Cond("debt_to_income", "<", PyFloat(55)) >>,
        action |-> Action("REVIEW", "Borderline metrics; needs manual review")],
       [name |-> "Too much debt", priority |-> PyInt(70),
        conditions |-> << Cond("debt_to_income", ">=", PyFloat(60)) >>,
        action |-> Action("REJECT", "High debt-to-income ratio")],
       [name |-> "Low credit or income", priority |-> PyInt(50),
        conditions |-> << Cond("credit_score", "<", PyInt(600)) >>,
        action |-> Action("REJECT", "Credit score below minimum threshold")] >>

\* the facts the script builds from the widgets' default values
WidgetFacts ==
    [income |-> PyFloat(500000), credit_score |-> PyInt(680),
     debt_to_income |-> PyFloat(45), employment_years |-> PyInt(2),
     age |-> PyInt(30)]

\* facts without income and employment_years
DebtFacts == [debt_to_income |-> PyFloat(65), credit_score |-> PyInt(500)]

\* facts with a text and a collection among them
MixedFacts ==
    [credit_score |-> PyInt(700), grade |-> PyStr("a"),
     tags |-> PyList(<<PyStr("a")>>)]

\* the fact sets run_rules is called with
FactSets == {WidgetFacts, DebtFacts, MixedFacts, EmptyDict}

\* the rules a user writes that follow the rule shape: conditions are triples
\* of a field name, an operator symbol and a literal, a priority is an integer
\* or left out, an action is a dict or left out
ShapedRules ==
    { [name |-> "A", priority |-> PyInt(10), conditions |-> << >>,
       action |-> Action("APPROVE", "a")],
      [name |-> "B", priority |-> PyInt(10),
       conditions |-> << Cond("credit_score", ">=", PyInt(600)) >>,
       action |-> Action("REJECT", "b")],
      [name |-> "C", conditions |-> << >>, action |-> Action("REVIEW", "c")],
      [name |-> "D", priority |-> PyInt(-5),
       conditions |-> << Cond("grade", "==", PyStr("a")),
                         Cond("credit_score", "!=", PyStr("a")) >>,
       action |-> Action("APPROVE", "d")],
      [name |-> "E", priority |-> PyInt(20),
       conditions |-> << Cond("credit_score", "<", PyInt(600)) >>],
      [name |-> "F", priority |-> PyInt(0), action |-> Action("REJECT", "f")],
      [name |-> "G", priority |-> PyInt(30),
       conditions |-> << Cond("grade", "in", PyList(<<PyStr("a"), PyInt(1)>>)),
                         Cond("tags", "not_in", PyList(<<PyStr("a")>>)) >>,
       action |-> EmptyDict] }

\* rules that are JSON objects but do not follow the rule shape
MalformedRules ==
    { [name |-> "M1", priority |-> PyInt(5), conditions |-> << PyInt(5) >>,
       action |-> Action("REJECT", "m1")],
      [name |-> "M2", priority |-> PyInt(5),
       conditions |-> << PyList(<<PyList(<<PyStr("a")>>), PyStr("=="), PyInt(1)>>) >>,
       action |-> Action("REJECT", "m2")],
      [name |-> "M3", priority |-> PyInt(40),
       conditions |-> << PyList(<<PyStr("credit_score"), PyStr(">=")>>),
                         PyInt(5) >>,
       action |-> Action("REJECT", "m3")],
      [name |-> "M4", priority |-> PyStr("a"), conditions |-> << >>,
       action |-> Action("APPROVE", "m4")] }

Fields == {"credit_score", "grade", "tags", "missing"}

Operators == OPS \cup {"=~"}

Literals ==
    { PyInt(600), PyInt(700), PyFloat(70000), PyStr("a"), PyStr("ab"),
      PyList(<<PyInt(700), PyStr("a")>>), PyList(<<PyStr("a")>>), PyNone }

\* the conditions evaluated one by one
Conditions == {Cond(f, op, v) : f \in Fields, op \in Operators, v \in Literals}

\* the longest rule list a user writes
MaxRules == 3

----------------------------------------------------------------------------
(* The script *)

NoBaseline ==
    [set |-> FALSE, facts |-> EmptyDict, result |-> NoResult, between |-> FALSE]

NoProbe == [set |-> FALSE, cond |-> PyNone, value |-> "False", ran |-> NoResult]

\* the script starts with the widgets' default values and the default rules
\* in the text area; nothing is evaluated until the button is pressed
Init ==
    /\ facts = WidgetFacts
    /\ rules = DEFAULT_RULES
    /\ result = NoResult
    /\ baseline = NoBaseline
    /\ probe = NoProbe

\* the user changes the applicant's facts; the script reruns with the button
\* not pressed and shows no decision
SetFacts(F) ==
    /\ F # facts
    /\ facts' = F
    /\ result' = NoResult
    /\ probe' = NoProbe
    /\ UNCHANGED <<rules, baseline>>

\* the user adds a rule at the end of the JSON array; json.loads gives the
\* list, the script reruns with the button not pressed
AppendRule(r) ==
    /\ Len(rules) < MaxRules
    /\ rules' = Append(rules, r)
    /\ result' = NoResult
    /\ baseline' = NoBaseline
    /\ UNCHANGED <<facts, probe>>

\* the user replaces the text by the empty JSON array
ClearRules ==
    /\ rules # << >>
    /\ rules' = << >>
    /\ result' = NoResult
    /\ baseline' = NoBaseline
    /\ UNCHANGED <<facts, probe>>

\* the text is no JSON, or no JSON array: the script falls back to the defaults
InvalidRules ==
    /\ rules # DEFAULT_RULES
    /\ rules' = DEFAULT_RULES
    /\ result' = NoResult
    /\ baseline' = NoBaseline
    /\ UNCHANGED <<facts, probe>>

\* the button is pressed: action, fired = run_rules(facts, rules).  baseline
\* keeps the first evaluation made since the rules were last edited, and
\* whether other facts were evaluated since
Evaluate ==
    /\ result' = run_rules(facts, rules)
    /\ rules' = rules_after_run(rules)
    /\ baseline' = IF ~baseline.set
                   THEN [set |-> TRUE, facts |-> facts, result |-> result',
                         between |-> FALSE]
                   ELSE IF facts # baseline.facts
                        THEN [baseline EXCEPT !.between = TRUE]
                   ELSE baseline
    /\ UNCHANGED <<facts, probe>>

\* one condition is evaluated against the facts, alone and as the only
\* condition of a rule
EvalCond(c) ==
    /\ probe' = [set |-> TRUE, cond |-> c, value |-> evaluate_condition(facts, c),
                 ran |-> run_rules(facts, << [name |-> "probe", priority |-> PyInt(1),
                                              conditions |-> <<c>>,
                                              action |-> Action("REJECT", "probe")] >>)]
    /\ UNCHANGED <<facts, rules, result, baseline>>

Next ==
    \/ \E F \in FactSets : SetFacts(F)
    \/ \E r \in ShapedRules : AppendRule(r)
    \/ ClearRules
    \/ InvalidRules
    \/ Evaluate

Spec == Init /\ [][Next]_vars

\* the script with rule lists of any JSON objects
NextAny ==
    \/ Next
    \/ \E r \in MalformedRules : AppendRule(r)

SpecAny == Init /\ [][NextAny]_vars

\* single conditions evaluated against each fact set
NextCond ==
    \/ \E F \in FactSets : SetFacts(F)
    \/ \E c \in Conditions : EvalCond(c)

SpecCond == Init /\ [][NextCond]_vars

----------------------------------------------------------------------------
(* The claims *)

\* the positions of the rules of R that match F
Matching(F, R) == {i \in 1..Len(R) : rule_matches(F, R[i]) = "True"}

\* the priority of a rule, 0 for a rule without one
PriorityOrZero(rule) == IF "priority" \in DOMAIN rule THEN rule["priority"].v ELSE 0

Evaluated == result.status # "none"

Positions(s) == {s[k] : k \in 1..Len(s)}

\* C1: when at least one rule matches, run_rules returns exactly the matching
\* rules, each occurrence once, in order of priority non-increasing with a
\* missing priority counted as 0, and the action returned is that of the first
\* of them (when it carries one), so no matched rule has a higher priority
\* than the rule whose action wins
C1_MatchedSortedByPriority ==
    (Evaluated /\ Matching(facts, rules) # {}) =>
        /\ result.status = "ok"
        /\ Len(result.order) = Cardinality(Matching(facts, rules))
        /\ Positions(result.order) = Matching(facts, rules)
        /\ Len(result.fired) = Len(result.order)
        /\ \A k \in 1..Len(result.order) : result.fired[k] = rules[result.order[k]]
        /\ \A k \in 1..(Len(result.fired) - 1) :
               PriorityOrZero(result.fired[k]) >= PriorityOrZero(result.fired[k + 1])
        /\ "action" \in DOMAIN result.fired[1] => result.action = result.fired[1]["action"]
        /\ \A i \in Matching(facts, rules) :
               PriorityOrZero(rules[i]) <= PriorityOrZero(result.fired[1])

\* C1 witness: three rules given, one of them does not match, and the two
\* that match are returned in the other order than they were given in
C1_Witness ==
    /\ result.status = "ok"
    /\ Len(rules) = 3
    /\ Len(result.order) = 2
    /\ result.order[1] > result.order[2]
    /\ PriorityOrZero(result.fired[1]) > PriorityOrZero(result.fired[2])

\* C2: of two matching rules with equal priority the one given earlier comes
\* earlier in the matched sequence, and among the matching rules of the
\* highest priority the one given first is the first returned and the one
\* whose action is selected
C2_StableTieBreak ==
    result.status = "ok" =>
        /\ \A j, k \in 1..Len(result.order) :
               ( /\ PriorityOrZero(result.fired[j]) = PriorityOrZero(result.fired[k])
                 /\ result.order[j] < result.order[k] ) => j < k
        /\ \A i \in Matching(facts, rules) :
               ( \A j \in Matching(facts, rules) :
                     \/ PriorityOrZero(rules[j]) < PriorityOrZero(rules[i])
                     \/ (PriorityOrZero(rules[j]) = PriorityOrZero(rules[i]) /\ i <= j) )
               => /\ result.order[1] = i
                  /\ "action" \in DOMAIN rules[i] => result.action = rules[i]["action"]

\* C2 witness: two matching rules share the highest priority and carry
\* different actions, and a matching rule of lower priority stands between
\* them in the rules given
C2_Witness ==
    /\ result.status = "ok"
    /\ Len(result.order) = 3
    /\ PriorityOrZero(result.fired[1]) = PriorityOrZero(result.fired[2])
    /\ PriorityOrZero(result.fired[2]) > PriorityOrZero(result.fired[3])
    /\ result.order[1] < result.order[3]
    /\ result.order[3] < result.order[2]
    /\ "action" \in DOMAIN result.fired[1]
    /\ "action" \in DOMAIN result.fired[2]
    /\ result.fired[1]["action"] # result.fired[2]["action"]

\* C3: no error reaches the caller of run_rules, whatever the rule records hold
C3_NeverRaises == result.status # "raised"

\* C4 as stated: when no rule matches, the action is REVIEW with the reason
\* "no rule matched" and the matched sequence is empty
C4_AsStated ==
    (Evaluated /\ Matching(facts, rules) = {}) =>
        /\ result.action = [decision |-> "REVIEW", reason |-> "no rule matched"]
        /\ result.fired = << >>

\* C4: when no rule matches, the empty rule list included, run_rules returns
\* the action REVIEW with the reason "No rule matched" and an empty matched
\* sequence
C4_EmptyMatchDefault ==
    (Evaluated /\ Matching(facts, rules) = {}) =>
        /\ result.status = "ok"
        /\ result.action = [decision |-> "REVIEW", reason |-> "No rule matched"]
        /\ result.fired = << >>

\* C4 witness: two or more rules were given and none matched
C4_Witness ==
    /\ result.status = "ok"
    /\ Len(rules) >= 2
    /\ Matching(facts, rules) = {}

\* the eight operator symbols
EightOperators == {"==", "!=", ">", ">=", "<", "<=", "in", "not_in"}

ProbeField == probe.cond.v[1].v

ProbeOp == probe.cond.v[2].v

ProbeLiteral == probe.cond.v[3]

\* C5: evaluate_condition is true exactly when the field is a key of the
\* facts, the operator is one of the eight symbols, and applying the operator
\* to the fact and the literal succeeds and yields true; it is false for a
\* field the facts lack and for any other operator
C5_EvaluateIff ==
    probe.set =>
        /\ probe.value \in {"True", "False"}
        /\ probe.value = "True" <=>
               /\ ProbeField \in DOMAIN facts
               /\ ProbeOp \in EightOperators
               /\ CallOp(ProbeOp, facts[ProbeField], ProbeLiteral) = "True"
        /\ ProbeField \notin DOMAIN facts => probe.value = "False"
        /\ ProbeOp \notin EightOperators => probe.value = "False"

\* C5 witness: a membership test that is true
C5_Witness ==
    /\ probe.set
    /\ ProbeOp = "in"
    /\ ProbeField \in DOMAIN facts
    /\ probe.value = "True"

\* number, str, list or none
TypeClass(x) == IF IsNum(x) THEN "number" ELSE x.t

\* the literal b has a type that does not fit the fact a under op: another
\* type than the fact for a comparison, and for in and not_in a literal that is
\* no collection, or a text while the fact is none
Incompatible(op, a, b) ==
    IF op \in {"in", "not_in"}
    THEN b.t \notin {"list", "str"} \/ (b.t = "str" /\ a.t # "str")
    ELSE TypeClass(a) # TypeClass(b)

ProbeIncompatible ==
    /\ probe.set
    /\ ProbeField \in DOMAIN facts
    /\ ProbeOp \in EightOperators
    /\ Incompatible(ProbeOp, facts[ProbeField], ProbeLiteral)

\* C6 as stated: a condition whose literal has a type incompatible with the
\* fact is false under every one of the eight operators, and the rule that
\* holds it is not matched
C6_AsStated ==
    ProbeIncompatible => (probe.value = "False" /\ probe.ran.fired = << >>)

\* C6: a condition whose literal has a type incompatible with the fact is
\* false under ==, >, >=, <, <=, in and not_in, and the rule that holds it is
\* not matched; under != it is true, the two values being unequal, and the
\* rule is matched
C6_IncompatibleOperand ==
    ProbeIncompatible =>
        IF ProbeOp = "!="
        THEN probe.value = "True" /\ Len(probe.ran.fired) = 1
        ELSE probe.value = "False" /\ probe.ran.fired = << >>

\* C6 witness: not_in with a literal that is no collection
C6_Witness ==
    /\ ProbeIncompatible
    /\ ProbeOp = "not_in"
    /\ ProbeLiteral.t = "int"
    /\ probe.value = "False"

\* an action that is a decision with a reason
WellFormedAction(a) == DOMAIN a = {"decision", "reason"}

C8_EmptyConditionsMatch ==
    \A i \in 1..Len(rules) :
        Get(rules[i], "conditions", << >>) = << >> =>
            /\ rule_matches(facts, rules[i]) = "True"
            /\ Evaluated => (result.status = "ok" /\ i \in Positions(result.order))

\* C8 witness: a run over the empty fact set, in which a rule without
\* conditions is matched and another rule is not
C8_Witness ==
    /\ facts = EmptyDict
    /\ result.status = "ok"
    /\ Len(result.order) < Len(rules)
    /\ \E i \in Positions(result.order) : Get(rules[i], "conditions", << >>) = << >>

C10_ScenarioC ==
    ( /\ Evaluated
      /\ rules = DEFAULT_RULES
      /\ facts = [debt_to_income |-> PyFloat(65), credit_score |-> PyInt(500)] ) =>
        /\ result.status = "ok"
        /\ Len(result.fired) = 2
        /\ result.fired[1]["name"] = "Too much debt"
        /\ result.fired[1]["priority"] = PyInt(70)
        /\ result.fired[2]["name"] = "Low credit or income"
        /\ result.fired[2]["priority"] = PyInt(50)
        /\ result.action = [decision |-> "REJECT", reason |-> "High debt-to-income ratio"]

\* C10 witness: the default rules evaluated on these facts
C10_Witness ==
    /\ result.status = "ok"
    /\ rules = DEFAULT_RULES
    /\ facts = [debt_to_income |-> PyFloat(65), credit_score |-> PyInt(500)]

====
